---- MODULE Spec2Model ----
(***************************************************************************)
(* Model of the Cambio game session store (state_store.py), its HTTP      *)
(* callers (main.py) and the snapshot interface.                           *)
(*                                                                         *)
(* Python objects live in `heap`: a session dict is a heap object, the     *)
(* store maps a game id to the reference of its dict, and deepcopy         *)
(* allocates a new object.  Python's None is <<>> for cards and slots     *)
(* (both falsy / "is None"), NoRef for a missing dict, and the text       *)
(* "None" for a missing move type (which is how the code prints it).      *)
(* Hand slot k of the code (0..3) is index k+1 of the TLA+ sequence.      *)
(***************************************************************************)
EXTENDS Integers, Sequences, FiniteSets, TLC

VARIABLES
    heap,        \* reference -> session dict (the objects that are alive)
    game_store,  \* _game_store: game id -> reference of its session dict
    call,        \* the last operation invoked and its arguments
    result,      \* what that operation returned to its caller
    held,        \* references of earlier snapshots a caller still keeps
    removed,     \* cards overwritten as top_discard (removed from play)
    n_valid,     \* number of apply_move calls that returned valid: True
    pc,          \* per request thread: position inside apply_move
    local        \* per request thread: the local variables of apply_move

vars == <<heap, game_store, call, result, held, removed, n_valid, pc, local>>

----------------------------------------------------------------------------
(* Bounds of the model *)

MaxHistory == 2      \* accepted moves per session
MaxPlayers == 3      \* longest player_names list passed to create_game
NumSuits == 1        \* suits of the deck that are used
NumShuffles == 2     \* outcomes of random.shuffle that are explored
MaxRefs == 3         \* heap objects alive at the same time
CreateMaxNames == 14  \* longest player_names list tried on the full deck
MaxToolCalls == 1    \* tool calls of the advisor in one run

----------------------------------------------------------------------------
(* Values *)

None == <<>>
NoRef == 0
Refs == 1..MaxRefs

suits == <<"H", "D", "C", "S">>
ranks == <<"A", "2", "3", "4", "5", "6", "7", "8", "9", "10", "J", "Q", "K">>

Min(a, b) == IF a < b THEN a ELSE b

\* the characters of a rank token
Chars(rank) == IF rank = "10" THEN <<"1", "0">> ELSE <<rank>>

\* f"{rank}{suit}": a card is the sequence of its characters
Card(rank, suit) == Chars(rank) \o <<suit>>

Digits == <<"0", "1", "2", "3", "4", "5", "6", "7", "8", "9">>

DigitVal(c) == (CHOOSE d \in 1..10 : Digits[d] = c) - 1

RECURSIVE int(_)
int(s) == IF Len(s) = 0 THEN 0
          ELSE 10 * int(SubSeq(s, 1, Len(s) - 1)) + DigitVal(s[Len(s)])

RECURSIVE str(_)
str(n) == IF n < 0 THEN "-" \o str(0 - n)
          ELSE IF n < 10 THEN Digits[n + 1]
          ELSE str(n \div 10) \o Digits[(n % 10) + 1]

\* the un-shuffled deck: for suit in suits for rank in ranks
UsedSuits == SubSeq(suits, 1, Min(NumSuits, Len(suits)))

DeckSize == Len(UsedSuits) * Len(ranks)

OrderedDeck ==
    [i \in 1..DeckSize |->
        Card(ranks[((i - 1) % Len(ranks)) + 1],
             UsedSuits[((i - 1) \div Len(ranks)) + 1])]

\* random.shuffle: outcome number k, a rotation of the ordered deck
Shuffle(deck, k) ==
    [i \in 1..Len(deck) |-> deck[((i - 1 + 5 * k) % Len(deck)) + 1]]

create_deck(k) == Shuffle(OrderedDeck, k)

\* the deck of create_deck before the shuffle, all four suits
FullDeck ==
    [i \in 1..(Len(suits) * Len(ranks)) |->
        Card(ranks[((i - 1) % Len(ranks)) + 1],
             suits[((i - 1) \div Len(ranks)) + 1])]

Cards == {OrderedDeck[i] : i \in 1..DeckSize}

\* a mutant of get_card_value: the King counts as 13
get_card_value_king13(card) ==
    IF card = None THEN 0
    ELSE LET rank == SubSeq(card, 1, Len(card) - 1)
         IN  IF rank = <<"K">> THEN 13
             ELSE IF rank = <<"Q">> THEN 12
             ELSE IF rank = <<"J">> THEN 11
             ELSE IF rank = <<"A">> THEN 1
             ELSE int(rank)

get_card_value(card) ==
    IF card = None THEN 0
    ELSE LET rank == SubSeq(card, 1, Len(card) - 1)
         IN  IF rank = <<"K">> THEN 0
             ELSE IF rank = <<"Q">> THEN 12
             ELSE IF rank = <<"J">> THEN 11
             ELSE IF rank = <<"A">> THEN 1
             ELSE int(rank)

----------------------------------------------------------------------------
(* Inputs *)

GameIds == {"g1"}
UnknownId == "g0"
TheGame == CHOOSE g \in GameIds : TRUE

AllNames == <<"Ann", "Bob", "Cy", "Dee", "Eve">>
NameLists == {SubSeq(AllNames, 1, n) : n \in 0..Min(MaxPlayers, Len(AllNames))}

SlotValues == {None} \cup {<<k>> : k \in -1..4}

Moves == {[type |-> t, slot |-> None] :
              t \in {"draw_deck", "call_cambio", "shuffle", "None"}}
         \cup {[type |-> t, slot |-> s] :
              t \in {"draw_discard_swap", "peek"}, s \in SlotValues}

Calls == (GameIds \X Moves)
         \cup {<<UnknownId, [type |-> "draw_deck", slot |-> None]>>}

Threads == {1, 2}

----------------------------------------------------------------------------
(* The heap *)

Range(f) == {f[x] : x \in DOMAIN f}

\* the session dict stored under game_id, NoRef if there is none
\* (_game_store.get(game_id))
StoreGet(game_id) ==
    IF game_id \in DOMAIN game_store THEN game_store[game_id] ELSE NoRef

\* objects nobody references any more are collected
Release(h, keep) == [r \in (DOMAIN h) \cap keep |-> h[r]]

\* what a request thread has in its frame between its calls
NoResult == [valid |-> FALSE, reason |-> "", state |-> NoRef,
             round_end |-> FALSE, value |-> ""]
NoLocal == [game_id |-> "", move |-> None, cp |-> 0, card |-> None,
            ret |-> NoResult]

\* the objects still referenced: by the store, by a caller that kept a
\* snapshot, by a thread that has just returned one
Live ==
    Range(game_store) \cup held
    \cup {local[t].ret.state : t \in DOMAIN local}

FreshRef(h) ==
    CHOOSE r \in Refs \ DOMAIN h : \A q \in Refs \ DOMAIN h : r <= q

CanAllocate(h) == Refs \ DOMAIN h # {}

\* a mutant of deepcopy: hand out the object itself
deepcopy_alias(h, ref) == [heap |-> h, ref |-> ref]

\* deepcopy(obj): a new object with the same contents
deepcopy(h, ref) ==
    IF ref = NoRef THEN [heap |-> h, ref |-> NoRef]
    ELSE LET r == FreshRef(h)
         IN  [heap |-> [x \in (DOMAIN h) \cup {r} |->
                            IF x = r THEN h[ref] ELSE h[x]],
              ref |-> r]

----------------------------------------------------------------------------
(* create_game *)

DefaultNames == <<"Player1", "Player2">>

\* a mutant of InitialHand: the first two slots are the visible ones
InitialHand_first_two(deck, idx) ==
    [j \in 1..4 |-> [card |-> deck[idx + j], visible |-> j \in {1, 2}]]

InitialHand(deck, idx) ==
    [j \in 1..4 |-> [card |-> deck[idx + j], visible |-> j \in {1, 3}]]

\* the dict built by create_game from the shuffled deck; raises |-> TRUE
\* is the IndexError of deck[idx] when the deck runs out while dealing
create_game_with(deck, player_names, game_id) ==
    LET names == IF player_names = <<>> THEN DefaultNames ELSE player_names
        n == Len(names)
        idx == 4 * n
    IN  IF idx > Len(deck)
        THEN [raises |-> TRUE, state |-> None]
        ELSE [raises |-> FALSE,
              state |->
                [game_id |-> game_id,
                 variant |-> "cambio_standard",
                 players |->
                    [i \in 1..n |->
                        [player_id |-> "p" \o str(i),
                         name |-> names[i],
                         seat |-> i - 1,
                         hand |-> InitialHand(deck, 4 * (i - 1)),
                         score |-> 0]],
                 draw_pile |-> SubSeq(deck, idx + 1, Len(deck)),
                 draw_pile_count |-> Len(deck) - idx,
                 top_discard |-> None,
                 current_player |-> "p1",
                 turn_phase |-> "awaiting_action",
                 history |-> <<>>,
                 metadata |-> [started_at |-> "2025-10-25T08:00:00Z",
                               round |-> 1]]]

create_game(player_names, game_id, k) ==
    create_game_with(create_deck(k), player_names, game_id)

----------------------------------------------------------------------------
(* validate_move *)

BadSlot(slot) == slot = None \/ slot[1] < 0 \/ slot[1] > 3

\* a mutant of validate_move: the round_end check is missing
validate_move_no_round_check(game_id, move) ==
    LET ref == StoreGet(game_id)
        move_type == move.type
    IN  IF ref = NoRef THEN [valid |-> FALSE, reason |-> "Game not found"]
        ELSE IF move_type = "draw_deck"
        THEN IF heap[ref].draw_pile_count = 0
             THEN [valid |-> FALSE, reason |-> "Draw pile is empty"]
             ELSE [valid |-> TRUE, reason |-> ""]
        ELSE IF move_type = "draw_discard_swap"
        THEN IF heap[ref].top_discard = None
             THEN [valid |-> FALSE, reason |-> "No card in discard pile"]
             ELSE IF BadSlot(move.slot)
             THEN [valid |-> FALSE, reason |-> "Invalid slot"]
             ELSE [valid |-> TRUE, reason |-> ""]
        ELSE IF move_type = "peek"
        THEN IF BadSlot(move.slot)
             THEN [valid |-> FALSE, reason |-> "Invalid slot"]
             ELSE [valid |-> TRUE, reason |-> ""]
        ELSE IF move_type = "call_cambio"
        THEN [valid |-> TRUE, reason |-> ""]
        ELSE [valid |-> FALSE,
              reason |-> "Unknown move type: " \o move_type]

\* a mutant of validate_move: the slot is checked before the discard
validate_move_slot_first(game_id, move) ==
    LET ref == StoreGet(game_id)
        v == validate_move_no_round_check(game_id, move)
    IN  IF ref = NoRef THEN v
        ELSE IF heap[ref].turn_phase = "round_end"
        THEN [valid |-> FALSE, reason |-> "Round has ended"]
        ELSE IF move.type = "draw_discard_swap" /\ BadSlot(move.slot)
        THEN [valid |-> FALSE, reason |-> "Invalid slot"]
        ELSE v

\* validate_move(game_id, move) -> (valid, reason); reason "" is None
validate_move(game_id, move) ==
    LET ref == StoreGet(game_id)
        move_type == move.type
    IN  IF ref = NoRef THEN [valid |-> FALSE, reason |-> "Game not found"]
        ELSE IF heap[ref].turn_phase = "round_end"
        THEN [valid |-> FALSE, reason |-> "Round has ended"]
        ELSE IF move_type = "draw_deck"
        THEN IF heap[ref].draw_pile_count = 0
             THEN [valid |-> FALSE, reason |-> "Draw pile is empty"]
             ELSE [valid |-> TRUE, reason |-> ""]
        ELSE IF move_type = "draw_discard_swap"
        THEN IF heap[ref].top_discard = None
             THEN [valid |-> FALSE, reason |-> "No card in discard pile"]
             ELSE IF BadSlot(move.slot)
             THEN [valid |-> FALSE, reason |-> "Invalid slot"]
             ELSE [valid |-> TRUE, reason |-> ""]
        ELSE IF move_type = "peek"
        THEN IF BadSlot(move.slot)
             THEN [valid |-> FALSE, reason |-> "Invalid slot"]
             ELSE [valid |-> TRUE, reason |-> ""]
        ELSE IF move_type = "call_cambio"
        THEN [valid |-> TRUE, reason |-> ""]
        ELSE [valid |-> FALSE,
              reason |-> "Unknown move type: " \o move_type]

----------------------------------------------------------------------------
(* apply_move: the statements of the move executor, on a session dict s.  *)
(* cp is the position in s.players of the dict bound to the local         *)
(* variable current_player.                                                *)

\* next(p for p in state["players"] if p["player_id"] == current_player);
\* 0 stands for StopIteration
FindCurrent(s) ==
    IF \E i \in 1..Len(s.players) : s.players[i].player_id = s.current_player
    THEN CHOOSE i \in 1..Len(s.players) :
            /\ s.players[i].player_id = s.current_player
            /\ \A j \in 1..(i - 1) :
                    s.players[j].player_id # s.current_player
    ELSE 0

\* a mutant of PopFront: the drawn card stays in the pile
PopFront_keep(s) == s

\* drawn = state["draw_pile"].pop(0)
PopFront(s) == [s EXCEPT !.draw_pile = Tail(@)]

\* a mutant of SetCount: the count is left as it was
SetCount_stale(s) == s

\* a mutant of SetCount: the count is decremented twice
SetCount_twice(s) ==
    [s EXCEPT !.draw_pile_count = Len(s.draw_pile) - 1]

\* state["draw_pile_count"] = len(state["draw_pile"])
SetCount(s) == [s EXCEPT !.draw_pile_count = Len(s.draw_pile)]

\* state["top_discard"] = card
SetDiscard(s, card) == [s EXCEPT !.top_discard = card]

\* a mutant of AppendHistory: the record is put in front of the list
AppendHistory_prepend(s, action) ==
    [s EXCEPT !.history =
        <<[turn |-> Len(@) + 1,
           player |-> s.current_player,
           action |-> action]>> \o @]

\* a mutant of AppendHistory: nothing is recorded
AppendHistory_skip(s, action) == s

\* state["history"].append({"turn": ..., "player": ..., "action": ...})
AppendHistory(s, action) ==
    [s EXCEPT !.history =
        Append(@, [turn |-> Len(@) + 1,
                   player |-> s.current_player,
                   action |-> action])]

\* a mutant of SetSlot: the new slot is inserted in front of the old one
SetSlot_insert(s, cp, slot, card) ==
    [s EXCEPT !.players[cp].hand =
        SubSeq(@, 1, slot) \o <<[card |-> card, visible |-> TRUE]>>
        \o SubSeq(@, slot + 1, Len(@))]

\* a mutant of SetSlot: the new slot keeps the old visibility
SetSlot_hidden(s, cp, slot, card) ==
    [s EXCEPT !.players[cp].hand[slot + 1].card = card]

\* current_player["hand"][slot] = {"card": card, "visible": True}
SetSlot(s, cp, slot, card) ==
    [s EXCEPT !.players[cp].hand[slot + 1] =
        [card |-> card, visible |-> TRUE]]

\* a mutant of MarkVisible: the flag is flipped
MarkVisible_toggle(s, cp, slot) ==
    [s EXCEPT !.players[cp].hand[slot + 1].visible = ~@]

\* current_player["hand"][slot]["visible"] = True
MarkVisible(s, cp, slot) ==
    [s EXCEPT !.players[cp].hand[slot + 1].visible = TRUE]

RECURSIVE SumValues(_)
SumValues(hand) ==
    IF hand = <<>> THEN 0
    ELSE get_card_value(Head(hand).card) + SumValues(Tail(hand))

\* the reveal-and-score loop of call_cambio
RevealAndScore(s) ==
    [s EXCEPT !.players =
        [i \in 1..Len(s.players) |->
            [s.players[i] EXCEPT
                !.hand = [j \in 1..Len(s.players[i].hand) |->
                            [s.players[i].hand[j] EXCEPT !.visible = TRUE]],
                !.score = SumValues(s.players[i].hand)]]]

\* state["turn_phase"] = "round_end"
SetRoundEnd(s) == [s EXCEPT !.turn_phase = "round_end"]

\* a mutant of SwitchPlayer: the turn never passes on
SwitchPlayer_stay(s, cp) == s

\* current_idx = state["players"].index(current_player); next_idx = ...;
\* state["current_player"] = state["players"][next_idx]["player_id"]
SwitchPlayer(s, cp) ==
    LET current_idx == cp - 1
        next_idx == (current_idx + 1) % Len(s.players)
    IN  [s EXCEPT !.current_player = s.players[next_idx + 1].player_id]

\* the branch of apply_move for move, run without interruption
DrawDeckBranch(s) ==
    AppendHistory(SetDiscard(SetCount(PopFront(s)), Head(s.draw_pile)),
                  "drew from deck")

\* a mutant of SwapBranch: taking the discard leaves it empty
SwapBranch_takes_discard(s, cp, slot) ==
    AppendHistory(
        SetDiscard(SetSlot(s, cp, slot, s.top_discard), None),
        "drew from discard and swapped slot " \o str(slot))

\* a mutant of SwapBranch: the swap also takes the top of the draw pile
SwapBranch_draws(s, cp, slot) ==
    LET old_card == s.players[cp].hand[slot + 1].card
    IN  AppendHistory(
            SetDiscard(SetSlot(SetCount(PopFront(s)), cp, slot,
                               s.top_discard), old_card),
            "drew from discard and swapped slot " \o str(slot))

SwapBranch(s, cp, slot) ==
    LET old_card == s.players[cp].hand[slot + 1].card
    IN  AppendHistory(
            SetDiscard(SetSlot(s, cp, slot, s.top_discard), old_card),
            "drew from discard and swapped slot " \o str(slot))

PeekBranch(s, cp, slot) ==
    AppendHistory(MarkVisible(s, cp, slot), "peeked at slot " \o str(slot))

CambioBranch(s) ==
    AppendHistory(SetRoundEnd(RevealAndScore(s)), "called Cambio!")

\* a mutant of Execute: the turn passes on after call_cambio too
Execute_cambio_advances(s, move) ==
    LET cp == FindCurrent(s)
    IN  IF move.type = "draw_deck" THEN SwitchPlayer(DrawDeckBranch(s), cp)
        ELSE IF move.type = "draw_discard_swap"
        THEN SwitchPlayer(SwapBranch(s, cp, move.slot[1]), cp)
        ELSE IF move.type = "peek"
        THEN SwitchPlayer(PeekBranch(s, cp, move.slot[1]), cp)
        ELSE SwitchPlayer(CambioBranch(s), cp)

\* the session dict after apply_move has executed a validated move
Execute(s, move) ==
    LET cp == FindCurrent(s)
    IN  IF move.type = "draw_deck" THEN SwitchPlayer(DrawDeckBranch(s), cp)
        ELSE IF move.type = "draw_discard_swap"
        THEN SwitchPlayer(SwapBranch(s, cp, move.slot[1]), cp)
        ELSE IF move.type = "peek"
        THEN SwitchPlayer(PeekBranch(s, cp, move.slot[1]), cp)
        ELSE CambioBranch(s)

\* the cards that an executed move overwrites as top_discard and that
\* are in play nowhere else afterwards
Overwritten(s, move) ==
    IF move.type = "draw_deck" /\ s.top_discard # None
    THEN {s.top_discard} ELSE {}

----------------------------------------------------------------------------
(* Results *)

NoCall == [op |-> "none", game_id |-> "", move |-> None]
\* {"valid": False, "reason": reason}
Rejected(reason) == [NoResult EXCEPT !.reason = reason]

\* {"valid": True, "state": deepcopy(state)} (and "round_end": True)
Accepted(ref, round_end) ==
    [NoResult EXCEPT !.valid = TRUE, !.state = ref, !.round_end = round_end]

\* a mutant of apply_move_result: a rejected move is still logged
apply_move_logs_rejected(h, game_id, move, v) ==
    IF ~v.valid
    THEN IF StoreGet(game_id) = NoRef
         THEN [heap |-> h, result |-> Rejected(v.reason)]
         ELSE [heap |-> [h EXCEPT ![StoreGet(game_id)] =
                            AppendHistory(@, "rejected")],
               result |-> Rejected(v.reason)]
    ELSE LET ref == StoreGet(game_id)
             h1 == [h EXCEPT ![ref] = Execute(@, move)]
             c == deepcopy(h1, ref)
         IN  [heap |-> c.heap,
              result |-> Accepted(c.ref, move.type = "call_cambio")]

\* apply_move(game_id, move) run without interruption, v being the
\* outcome of its validate_move call: the heap afterwards and the dict
\* that is returned
apply_move(h, game_id, move, v) ==
    IF ~v.valid
    THEN [heap |-> h, result |-> Rejected(v.reason)]
    ELSE LET ref == StoreGet(game_id)
             h1 == [h EXCEPT ![ref] = Execute(@, move)]
             c == deepcopy(h1, ref)
         IN  [heap |-> c.heap,
              result |-> Accepted(c.ref, move.type = "call_cambio")]

----------------------------------------------------------------------------
(* The store used by one caller at a time *)

Init ==
    /\ heap = <<>>
    /\ game_store = <<>>
    /\ call = NoCall
    /\ result = NoResult
    /\ held = {}
    /\ removed = {}
    /\ n_valid = 0
    /\ pc = [t \in Threads |-> "idle"]
    /\ local = [t \in Threads |-> NoLocal]

\* create_game(player_names) with deck the outcome of create_deck: one
\* session per store is explored
CreateGameOn(deck, player_names) ==
    /\ DOMAIN game_store = {}
    /\ LET game_id == CHOOSE g \in GameIds : g \notin DOMAIN game_store
           g == create_game_with(deck, player_names, game_id)
           ref == FreshRef(heap)
       IN  /\ call' = [op |-> "create_game", game_id |-> "",
                       move |-> [player_names |-> player_names,
                                 deck |-> deck]]
           /\ IF g.raises
              THEN /\ result' = [NoResult EXCEPT !.reason = "IndexError"]
                   /\ UNCHANGED <<heap, game_store>>
              ELSE /\ heap' = [x \in {ref} |-> g.state]
                   /\ game_store' = [x \in {game_id} |-> ref]
                   /\ result' = [NoResult EXCEPT !.valid = TRUE,
                                                 !.value = game_id]
    /\ UNCHANGED <<held, removed, n_valid, pc, local>>

CreateGame(player_names, k) == CreateGameOn(create_deck(k), player_names)

\* apply_move(game_id, move), called when no other call is running
ApplyMove(game_id, move) ==
    LET v == validate_move(game_id, move)
        h == Release(heap, Live)
        r == apply_move(h, game_id, move, v)
    IN  /\ v.valid => /\ Len(heap[StoreGet(game_id)].history) < MaxHistory
                      /\ CanAllocate(h)
        /\ call' = [op |-> "apply_move", game_id |-> game_id, move |-> move]
        /\ heap' = r.heap
        /\ result' = r.result
        /\ removed' = IF v.valid
                      THEN removed \cup
                           Overwritten(heap[StoreGet(game_id)], move)
                      ELSE removed
        /\ n_valid' = IF r.result.valid THEN n_valid + 1 ELSE n_valid
        /\ UNCHANGED <<game_store, held, pc, local>>

Next ==
    \/ \E names \in NameLists, k \in 0..(NumShuffles - 1) :
            CreateGame(names, k)
    \/ \E c \in Calls : ApplyMove(c[1], c[2])

Spec == Init /\ [][Next]_vars

----------------------------------------------------------------------------
(* create_game on the deck of 52 cards *)

CreateNameLists ==
    {[i \in 1..n |-> "N" \o str(i)] : n \in 0..CreateMaxNames}

FullShuffles == {Shuffle(FullDeck, k) : k \in 0..(Len(FullDeck) - 1)}

NextCreate ==
    \E names \in CreateNameLists, deck \in FullShuffles :
        CreateGameOn(deck, names)

SpecCreate == Init /\ [][NextCreate]_vars

----------------------------------------------------------------------------
(* The other entry points of the store: patch_state and validate_move     *)

\* dict.update: the keys of patch overwrite or extend those of s
Update(s, patch) ==
    [key \in (DOMAIN s) \cup (DOMAIN patch) |->
        IF key \in DOMAIN patch THEN patch[key] ELSE s[key]]

\* patch_state(game_id, patch): the heap afterwards and what is returned;
\* reason "ValueError" is the exception for a game that is not stored
patch_state(h, game_id, patch) ==
    IF game_id \notin DOMAIN game_store
    THEN [heap |-> h, result |-> [NoResult EXCEPT !.reason = "ValueError"]]
    ELSE LET ref == game_store[game_id]
             h1 == [h EXCEPT ![ref] = Update(@, patch)]
             c == deepcopy(h1, ref)
         IN  [heap |-> c.heap,
              result |-> [NoResult EXCEPT !.valid = TRUE, !.state = c.ref]]

Patches ==
    {[turn_phase |-> "awaiting_action"],
     [current_player |-> "p2"],
     [draw_pile_count |-> 0]}

\* PATCH /games/{game_id}
PatchState(game_id, patch) ==
    LET h == Release(heap, Live)
        r == patch_state(h, game_id, patch)
    IN  /\ CanAllocate(h)
        /\ call' = [op |-> "patch_state", game_id |-> game_id,
                    move |-> patch]
        /\ heap' = r.heap
        /\ result' = r.result
        /\ UNCHANGED <<game_store, held, removed, n_valid, pc, local>>

\* a mutant of validate_move_writes: emptiness is tested by popping
validate_move_pops(h, game_id, move) ==
    IF StoreGet(game_id) # NoRef /\ move.type = "draw_deck"
       /\ h[StoreGet(game_id)].draw_pile # <<>>
    THEN [h EXCEPT ![StoreGet(game_id)] = PopFront(@)]
    ELSE h

\* the heap after validate_move(game_id, move): the function reads the
\* session and assigns to nothing in it
validate_move_writes(h, game_id, move) == h

\* validate_move(game_id, move) called on its own
ValidateMove(game_id, move) ==
    LET v == validate_move(game_id, move)
    IN  /\ call' = [op |-> "validate_move", game_id |-> game_id,
                    move |-> move]
        /\ heap' = validate_move_writes(Release(heap, Live), game_id, move)
        /\ result' = [NoResult EXCEPT !.valid = v.valid,
                                      !.reason = v.reason]
        /\ UNCHANGED <<game_store, held, removed, n_valid, pc, local>>

ApiMoves ==
    {[type |-> "draw_deck", slot |-> None],
     [type |-> "peek", slot |-> <<1>>],
     [type |-> "call_cambio", slot |-> None]}

NextApi ==
    \/ CreateGame(<<>>, 0)
    \/ \E m \in ApiMoves : ApplyMove(TheGame, m)
    \/ \E g \in GameIds \cup {UnknownId}, patch \in Patches :
            PatchState(g, patch)
    \/ \E c \in Calls : ValidateMove(c[1], c[2])

SpecApi == Init /\ [][NextApi]_vars

----------------------------------------------------------------------------
(* Snapshots in the hands of a caller *)

\* get_state(game_id): deepcopy(_game_store.get(game_id))
GetState(game_id) ==
    LET h == Release(heap, Live)
        c == deepcopy(h, StoreGet(game_id))
    IN  /\ StoreGet(game_id) # NoRef => CanAllocate(h)
        /\ call' = [op |-> "get_state", game_id |-> game_id, move |-> None]
        /\ heap' = c.heap
        /\ result' = [NoResult EXCEPT !.valid = c.ref # NoRef,
                                      !.state = c.ref]
        /\ UNCHANGED <<game_store, held, removed, n_valid, pc, local>>

\* the caller keeps the snapshot it was given while it makes more calls
Keep ==
    /\ result.state # NoRef
    /\ result.state \notin held
    /\ Cardinality(held) + 2 < MaxRefs
    /\ held' = held \cup {result.state}
    /\ UNCHANGED <<heap, game_store, call, result, removed, n_valid,
                   pc, local>>

\* what a caller may do to a dict it was given
Mutations == {"reveal", "empty_pile"}

Mutate(s, mutation) ==
    IF mutation = "reveal"
    THEN [s EXCEPT !.players[1].hand[2].visible = TRUE]
    ELSE [s EXCEPT !.draw_pile = <<>>, !.draw_pile_count = 0]

\* the caller changes a snapshot it holds
CallerMutate(ref, mutation) ==
    /\ ref \in (held \cup {result.state}) \ {NoRef}
    /\ heap' = [heap EXCEPT ![ref] = Mutate(@, mutation)]
    /\ call' = [op |-> "caller_mutate", game_id |-> "", move |-> None]
    /\ UNCHANGED <<game_store, result, held, removed, n_valid, pc, local>>

AliasMoves ==
    {[type |-> "draw_deck", slot |-> None],
     [type |-> "peek", slot |-> <<1>>],
     [type |-> "peek", slot |-> <<4>>],
     [type |-> "call_cambio", slot |-> None]}

NextAlias ==
    \/ CreateGame(<<>>, 0)
    \/ \E m \in AliasMoves : ApplyMove(TheGame, m)
    \/ \E g \in GameIds \cup {UnknownId} : GetState(g)
    \/ Keep
    \/ \E ref \in Refs, mutation \in Mutations : CallerMutate(ref, mutation)

SpecAlias == Init /\ [][NextAlias]_vars

----------------------------------------------------------------------------
(* Request threads.  main.py declares its endpoints with def, so the      *)
(* server runs each request on a thread of a pool and two apply_move      *)
(* calls on one session interleave between their statements; there is no  *)
(* lock in state_store.py.  Each action below is one statement of         *)
(* apply_move (the validate_move call is taken as one step).              *)

ThreadMoves ==
    {[type |-> "draw_deck", slot |-> None],
     [type |-> "draw_discard_swap", slot |-> <<0>>],
     [type |-> "peek", slot |-> <<1>>],
     [type |-> "call_cambio", slot |-> None]}

ThreadNameLists == {SubSeq(AllNames, 1, n) : n \in {2, 3}}

InFlight(t) == pc[t] # "idle"

StoredOf(t) == heap[game_store[local[t].game_id]]

SetStored(t, s) == [heap EXCEPT ![game_store[local[t].game_id]] = s]

Goto(t, label) == pc' = [pc EXCEPT ![t] = label]

ActionText(move) ==
    IF move.type = "draw_deck" THEN "drew from deck"
    ELSE IF move.type = "draw_discard_swap"
    THEN "drew from discard and swapped slot " \o str(move.slot[1])
    ELSE IF move.type = "peek"
    THEN "peeked at slot " \o str(move.slot[1])
    ELSE "called Cambio!"

\* valid, reason = validate_move(game_id, move); if not valid: return ...
T_Validate(t, game_id, move) ==
    LET v == validate_move(game_id, move)
        inflight == Cardinality({u \in Threads : InFlight(u)})
    IN  /\ pc[t] = "idle"
        /\ v.valid =>
              Len(heap[StoreGet(game_id)].history) + inflight < MaxHistory
        /\ heap' = Release(heap, Live \ {local[t].ret.state})
        /\ local' = [local EXCEPT ![t] =
                        [NoLocal EXCEPT
                            !.game_id = game_id, !.move = move,
                            !.ret = IF v.valid THEN NoResult
                                    ELSE Rejected(v.reason)]]
        /\ Goto(t, IF v.valid THEN "lookup" ELSE "idle")
        /\ UNCHANGED <<game_store, call, result, held, removed, n_valid>>

\* state = _game_store[game_id]; current_player = next(...)
T_Lookup(t) ==
    /\ pc[t] = "lookup"
    /\ local' = [local EXCEPT ![t].cp = FindCurrent(StoredOf(t))]
    /\ Goto(t, local[t].move.type)
    /\ UNCHANGED <<heap, game_store, call, result, held, removed, n_valid>>

\* drawn = state["draw_pile"].pop(0), an IndexError on an empty list
T_Pop(t) ==
    /\ pc[t] = "draw_deck"
    /\ IF StoredOf(t).draw_pile = <<>>
       THEN /\ local' = [local EXCEPT ![t].ret =
                            [NoResult EXCEPT !.reason = "IndexError"]]
            /\ Goto(t, "idle")
            /\ UNCHANGED heap
       ELSE /\ local' = [local EXCEPT
                            ![t].card = Head(StoredOf(t).draw_pile)]
            /\ heap' = SetStored(t, PopFront(StoredOf(t)))
            /\ Goto(t, "set_count")
    /\ UNCHANGED <<game_store, call, result, held, removed, n_valid>>

T_SetCount(t) ==
    /\ pc[t] = "set_count"
    /\ heap' = SetStored(t, SetCount(StoredOf(t)))
    /\ Goto(t, "set_discard")
    /\ UNCHANGED <<game_store, call, result, held, removed, n_valid, local>>

\* old_card = current_player["hand"][slot]["card"]
T_ReadSlot(t) ==
    /\ pc[t] = "draw_discard_swap"
    /\ local' = [local EXCEPT ![t].card =
            StoredOf(t).players[local[t].cp]
                .hand[local[t].move.slot[1] + 1].card]
    /\ Goto(t, "set_slot")
    /\ UNCHANGED <<heap, game_store, call, result, held, removed, n_valid>>

T_SetSlot(t) ==
    /\ pc[t] = "set_slot"
    /\ heap' = SetStored(t, SetSlot(StoredOf(t), local[t].cp,
                                    local[t].move.slot[1],
                                    StoredOf(t).top_discard))
    /\ Goto(t, "set_discard")
    /\ UNCHANGED <<game_store, call, result, held, removed, n_valid, local>>

\* state["top_discard"] = drawn, or = old_card
T_SetDiscard(t) ==
    /\ pc[t] = "set_discard"
    /\ heap' = SetStored(t, SetDiscard(StoredOf(t), local[t].card))
    /\ removed' = removed \cup Overwritten(StoredOf(t), local[t].move)
    /\ Goto(t, "history")
    /\ UNCHANGED <<game_store, call, result, held, n_valid, local>>

T_Peek(t) ==
    /\ pc[t] = "peek"
    /\ heap' = SetStored(t, MarkVisible(StoredOf(t), local[t].cp,
                                        local[t].move.slot[1]))
    /\ Goto(t, "history")
    /\ UNCHANGED <<game_store, call, result, held, removed, n_valid, local>>

T_Reveal(t) ==
    /\ pc[t] = "call_cambio"
    /\ heap' = SetStored(t, SetRoundEnd(RevealAndScore(StoredOf(t))))
    /\ Goto(t, "history")
    /\ UNCHANGED <<game_store, call, result, held, removed, n_valid, local>>

T_History(t) ==
    /\ pc[t] = "history"
    /\ heap' = SetStored(t, AppendHistory(StoredOf(t),
                                          ActionText(local[t].move)))
    /\ Goto(t, IF local[t].move.type = "call_cambio"
               THEN "return" ELSE "switch")
    /\ UNCHANGED <<game_store, call, result, held, removed, n_valid, local>>

T_Switch(t) ==
    /\ pc[t] = "switch"
    /\ heap' = SetStored(t, SwitchPlayer(StoredOf(t), local[t].cp))
    /\ Goto(t, "return")
    /\ UNCHANGED <<game_store, call, result, held, removed, n_valid, local>>

\* return {"valid": True, "state": deepcopy(state)}
T_Return(t) ==
    LET c == deepcopy(heap, game_store[local[t].game_id])
    IN  /\ pc[t] = "return"
        /\ heap' = c.heap
        /\ local' = [local EXCEPT ![t].ret =
                Accepted(c.ref, local[t].move.type = "call_cambio")]
        /\ n_valid' = n_valid + 1
        /\ Goto(t, "idle")
        /\ UNCHANGED <<game_store, call, result, held, removed>>

NextConc ==
    \/ \E names \in ThreadNameLists : CreateGame(names, 0)
    \/ \E t \in Threads, m \in ThreadMoves : T_Validate(t, TheGame, m)
    \/ \E t \in Threads : T_Lookup(t)
    \/ \E t \in Threads : T_Pop(t)
    \/ \E t \in Threads : T_SetCount(t)
    \/ \E t \in Threads : T_ReadSlot(t)
    \/ \E t \in Threads : T_SetSlot(t)
    \/ \E t \in Threads : T_SetDiscard(t)
    \/ \E t \in Threads : T_Peek(t)
    \/ \E t \in Threads : T_Reveal(t)
    \/ \E t \in Threads : T_History(t)
    \/ \E t \in Threads : T_Switch(t)
    \/ \E t \in Threads : T_Return(t)

SpecConc == Init /\ [][NextConc]_vars

----------------------------------------------------------------------------
(* One request thread in apply_move while another caller reads            *)

\* the thread that runs apply_move
Writer == 1

\* get_state is taken as one step here, the copy being made at once; the
\* statements of apply_move are the steps of the writer
NextRead ==
    \/ CreateGame(<<>>, 0)
    \/ \E m \in ThreadMoves : T_Validate(Writer, TheGame, m)
    \/ T_Lookup(Writer)
    \/ T_Pop(Writer)
    \/ T_SetCount(Writer)
    \/ T_ReadSlot(Writer)
    \/ T_SetSlot(Writer)
    \/ T_SetDiscard(Writer)
    \/ T_Peek(Writer)
    \/ T_Reveal(Writer)
    \/ T_History(Writer)
    \/ T_Switch(Writer)
    \/ T_Return(Writer)
    \/ GetState(TheGame)

SpecRead == Init /\ [][NextRead]_vars

----------------------------------------------------------------------------
(* Vocabulary of the properties *)

Created == TheGame \in DOMAIN game_store

\* the stored session dict
Session == heap[game_store[TheGame]]

Hands(s) == [i \in 1..Len(s.players) |-> s.players[i].hand]

RECURSIVE Count(_, _)
Count(seq, x) ==
    IF seq = <<>> THEN 0
    ELSE (IF Head(seq) = x THEN 1 ELSE 0) + Count(Tail(seq), x)

RECURSIVE HandCards(_)
HandCards(players) ==
    IF players = <<>> THEN <<>>
    ELSE [j \in 1..Len(Head(players).hand) |-> Head(players).hand[j].card]
         \o HandCards(Tail(players))

\* every card position of a session that is in play
InPlay(s) ==
    s.draw_pile \o HandCards(s.players)
    \o (IF s.top_discard = None THEN <<>> ELSE <<s.top_discard>>)

PositionOf(s, player_id) ==
    CHOOSE i \in 1..Len(s.players) : s.players[i].player_id = player_id

AppliedCall == call.op = "apply_move" /\ call.game_id = TheGame

AcceptedMove(type) == AppliedCall /\ result.valid /\ call.move.type = type

----------------------------------------------------------------------------
(* C1: every card of the deck is in exactly one place: the draw pile, one *)
(* hand slot, the discard-top, or the set of cards removed from play by   *)
(* being overwritten as discard-top; nothing else is in play.             *)
C1_CardsConserved ==
    Created =>
        /\ \A c \in Cards :
              Count(InPlay(Session), c) + (IF c \in removed THEN 1 ELSE 0) = 1
        /\ \A i \in 1..Len(InPlay(Session)) : InPlay(Session)[i] \in Cards
        /\ removed \subseteq Cards

C1_Witness ==
    /\ Created
    /\ removed # {}
    /\ Len(Session.history) = 2

(* C3: once turn_phase is round_end, every apply_move on the session is   *)
(* rejected with "Round has ended", and turn_phase, current_player and    *)
(* the hands stay as they are.                                             *)
C3_RoundEndIsFinal ==
    [][(Created /\ Session.turn_phase = "round_end") =>
          /\ Session'.turn_phase = "round_end"
          /\ Session'.current_player = Session.current_player
          /\ Hands(Session') = Hands(Session)
          /\ AppliedCall' =>
                (~result'.valid /\ result'.reason = "Round has ended")]_vars

C3_Witness ==
    /\ Created
    /\ Session.turn_phase = "round_end"
    /\ AppliedCall
    /\ call.move.type = "peek" /\ call.move.slot = <<1>>
    /\ result.reason = "Round has ended"

(* C4: an apply_move that returns valid: False leaves the store and every *)
(* stored session dict as they were.                                       *)
C4_RejectedChangesNothing ==
    [][(call'.op = "apply_move" /\ ~result'.valid) =>
          /\ game_store' = game_store
          /\ \A g \in DOMAIN game_store :
                heap'[game_store[g]] = heap[game_store[g]]]_vars

C4_Witness ==
    /\ Created
    /\ AppliedCall
    /\ call.move.type = "peek" /\ call.move.slot = <<4>>
    /\ ~result.valid /\ result.reason = "Invalid slot"
    /\ Len(Session.history) = 1

\* the player after current_player in the order of the player list
NextInOrder(s) ==
    LET i == PositionOf(s, s.current_player)
    IN  s.players[IF i = Len(s.players) THEN 1 ELSE i + 1].player_id

NonTerminal(history) ==
    Cardinality({i \in 1..Len(history) :
                    history[i].action # "called Cambio!"})

(* C5: an accepted draw_deck, draw_discard_swap or peek passes the turn   *)
(* to the next player of the player list, the last one passing it to the  *)
(* first; with two players the turn is p1's after an even number of such  *)
(* moves and p2's after an odd number.                                     *)
C5_RoundRobin ==
    /\ [][(AppliedCall' /\ result'.valid
           /\ call'.move.type # "call_cambio") =>
             Session'.current_player = NextInOrder(Session)]_vars
    /\ []((Created /\ Len(Session.players) = 2) =>
             Session.current_player =
                IF NonTerminal(Session.history) % 2 = 0 THEN "p1" ELSE "p2")

C5_Witness ==
    /\ Created
    /\ Len(Session.players) = 2
    /\ NonTerminal(Session.history) = 2
    /\ Session.current_player = "p1"

(* C6: the history grows by exactly one record on an accepted move, the   *)
(* Cambio call included, and not at all on a rejected one; its length is  *)
(* the number of apply_move calls that returned valid: True.              *)
C6_HistoryCountsAccepted ==
    /\ [][(Created /\ AppliedCall') =>
             Len(Session'.history) =
                Len(Session.history) + (IF result'.valid THEN 1 ELSE 0)]_vars
    /\ [](IF Created THEN Len(Session.history) = n_valid ELSE n_valid = 0)

C6_Witness ==
    /\ Created
    /\ Session.turn_phase = "round_end"
    /\ Len(Session.history) = 2
    /\ AppliedCall /\ ~result.valid

LEGAL == [valid |-> TRUE, reason |-> ""]
Illegal(reason) == [valid |-> FALSE, reason |-> reason]

SlotInHand(slot) == slot \in {<<0>>, <<1>>, <<2>>, <<3>>}

\* the decision table of the moves in phase awaiting_action
DecisionTable(s, m) ==
    CASE m.type = "draw_deck" ->
            IF s.draw_pile # <<>> THEN LEGAL
            ELSE Illegal("Draw pile is empty")
      [] m.type = "draw_discard_swap" ->
            IF s.top_discard = None THEN Illegal("No card in discard pile")
            ELSE IF SlotInHand(m.slot) THEN LEGAL
            ELSE Illegal("Invalid slot")
      [] m.type = "peek" ->
            IF SlotInHand(m.slot) THEN LEGAL ELSE Illegal("Invalid slot")
      [] m.type = "call_cambio" -> LEGAL
      [] OTHER -> Illegal("Unknown move type: " \o m.type)

(* C8: in phase awaiting_action validate_move answers every move as the   *)
(* decision table does: draw_deck by the draw pile being non-empty,       *)
(* draw_discard_swap by the discard first and the slot second, peek by    *)
(* the slot, call_cambio always legal, any other kind rejected by name.   *)
C8_ValidateMatchesTable ==
    (Created /\ Session.turn_phase = "awaiting_action") =>
        \A m \in Moves :
            validate_move(TheGame, m) = DecisionTable(Session, m)

C8_Witness ==
    /\ Created
    /\ Session.turn_phase = "awaiting_action"
    /\ Session.top_discard = None
    /\ AppliedCall
    /\ call.move = [type |-> "draw_discard_swap", slot |-> <<4>>]
    /\ result = Rejected("No card in discard pile")

(* C9: an accepted draw_deck removes the front card of the draw pile and  *)
(* keeps the order of the rest, makes that card the discard-top, lowers   *)
(* draw_pile_count by one, and puts the previous discard-top, if any,     *)
(* out of play; a card out of play is never in the pile, a hand or the    *)
(* discard again.                                                          *)
C9_DrawDeck ==
    /\ [][AcceptedMove("draw_deck")' =>
            /\ Session.draw_pile # <<>>
            /\ Session'.draw_pile = Tail(Session.draw_pile)
            /\ Session'.top_discard = Head(Session.draw_pile)
            /\ Session'.draw_pile_count = Session.draw_pile_count - 1
            /\ Session.top_discard # None =>
                    Session.top_discard \in removed']_vars
    /\ [][removed \subseteq removed']_vars
    /\ [](Created => \A c \in removed : Count(InPlay(Session), c) = 0)

C9_Witness ==
    /\ Created
    /\ AcceptedMove("draw_deck")
    /\ removed # {}
    /\ Session.top_discard \notin removed

(* C10: an accepted draw_discard_swap(slot) leaves the slot of the player *)
(* who moved holding the previous discard-top, visible, makes the card    *)
(* that was in the slot the discard-top, and keeps the number of cards in *)
(* pile, hands and discard.                                                *)
C10_DiscardSwap ==
    [][AcceptedMove("draw_discard_swap")' =>
        LET cp == PositionOf(Session, Session.current_player)
            k == call'.move.slot[1] + 1
        IN  /\ Session'.players[cp].hand[k] =
                    [card |-> Session.top_discard, visible |-> TRUE]
            /\ Session.top_discard # None
            /\ Session'.top_discard = Session.players[cp].hand[k].card
            /\ Len(InPlay(Session')) = Len(InPlay(Session))]_vars

C10_Witness ==
    /\ Created
    /\ AcceptedMove("draw_discard_swap")
    /\ call.move.slot = <<1>>
    /\ Len(Session.players) = 2
    /\ Session.history[2].player = "p2"
    /\ Session.players[2].hand[2].visible
    /\ Session.top_discard # None

(* C7: what get_state and apply_move hand out is a copy of the stored    *)
(* dict and not the dict itself: a caller that changes a snapshot leaves  *)
(* every stored session as it was, and later calls on the store leave the *)
(* snapshots a caller kept as they were.                                   *)
C7_SnapshotsAreCopies ==
    /\ []((call.op \in {"get_state", "apply_move"} /\ result.state # NoRef)
            => /\ result.state \notin Range(game_store)
               /\ heap[result.state] = heap[StoreGet(call.game_id)])
    /\ [][call'.op = "caller_mutate" =>
            \A g \in DOMAIN game_store :
                heap'[game_store[g]] = heap[game_store[g]]]_vars
    /\ [][call'.op \in {"get_state", "apply_move"} =>
            \A ref \in held : heap'[ref] = heap[ref]]_vars

C7_Witness ==
    /\ Created
    /\ AcceptedMove("draw_deck")
    /\ ~Session.players[1].hand[2].visible
    /\ \E ref \in held :
            /\ heap[ref].history = <<>>
            /\ heap[ref].players[1].hand[2].visible

(* C2: validate-then-apply is one atomic unit per session: while one     *)
(* apply_move call is between its validation and the end of its mutation, *)
(* no other call on the session validates or mutates.                      *)
C2_ValidateApplyAtomic ==
    \A t, u \in Threads :
        (t # u /\ InFlight(t) /\ local[t].game_id = local[u].game_id)
            => ~InFlight(u)


\* the value of a card by the scoring table: K 0, A 1, 2..10 the number
\* on the card, J 11, Q 12
TableValue(card) ==
    LET i == CHOOSE i \in 1..Len(ranks) :
                \E u \in 1..Len(suits) : Card(ranks[i], suits[u]) = card
    IN  IF ranks[i] = "K" THEN 0 ELSE i

(* C11: an accepted call_cambio makes all four slots of every player      *)
(* visible, sets every score to the sum of the table values of the four   *)
(* cards in the hand whatever was visible before, sets turn_phase to      *)
(* round_end and returns round_end: True.                                 *)
C11_CallCambio ==
    [][AcceptedMove("call_cambio")' =>
        /\ \A i \in 1..Len(Session'.players) :
            /\ Len(Session'.players[i].hand) = 4
            /\ \A j \in 1..4 :
                /\ Session'.players[i].hand[j].visible
                /\ Session'.players[i].hand[j].card =
                        Session.players[i].hand[j].card
            /\ Session'.players[i].score =
                    TableValue(Session.players[i].hand[1].card)
                    + TableValue(Session.players[i].hand[2].card)
                    + TableValue(Session.players[i].hand[3].card)
                    + TableValue(Session.players[i].hand[4].card)
        /\ Len(Session'.players) = Len(Session.players)
        /\ Session'.turn_phase = "round_end"
        /\ result'.round_end
        /\ heap'[result'.state] = Session']_vars

C11_Witness ==
    /\ Created
    /\ AcceptedMove("call_cambio")
    /\ Session.history[1].action = "called Cambio!"
    /\ result.round_end
    /\ \E i \in 1..Len(Session.players) :
            /\ \E j \in 1..4 : Session.players[i].hand[j].card = <<"K", "H">>
            /\ \E j \in 1..4 :
                    Session.players[i].hand[j].card = <<"1", "0", "H">>
            /\ Session.players[i].score = 33


(* C12: a session made by create_game for n players starts with player i  *)
(* holding the i-th block of four cards of the shuffled deck, slots 0 and *)
(* 2 visible and 1 and 3 hidden, the draw pile being the rest of the deck *)
(* in order with draw_pile_count + 4 * n = 52, no discard-top, the first  *)
(* player to move, turn_phase awaiting_action and an empty history.       *)
C12_InitialState ==
    (call.op = "create_game" /\ result.valid) =>
        LET s == Session
            deck == call.move.deck
            n == Len(s.players)
        IN  /\ Created
            /\ n = IF call.move.player_names = <<>> THEN 2
                   ELSE Len(call.move.player_names)
            /\ \A i \in 1..n :
                /\ Len(s.players[i].hand) = 4
                /\ \A j \in 1..4 :
                    /\ s.players[i].hand[j].card = deck[4 * (i - 1) + j]
                    /\ s.players[i].hand[j].visible = (j \in {1, 3})
            /\ s.draw_pile = SubSeq(deck, 4 * n + 1, Len(deck))
            /\ s.draw_pile_count + 4 * n = 52
            /\ s.top_discard = None
            /\ s.current_player = s.players[1].player_id
            /\ s.turn_phase = "awaiting_action"
            /\ s.history = <<>>

C12_Witness ==
    /\ call.op = "create_game"
    /\ Created
    /\ Len(Session.players) = 13
    /\ Session.draw_pile = <<>>
    /\ Session.players[13].hand[4].card = <<"A", "H">>

(* C13: create_game fails and stores no session exactly when fewer than   *)
(* two names are given or four cards per player exceed the 52 of the      *)
(* deck; it succeeds for every number of names from 2 to 13.              *)
C13_CreateFailsExactly ==
    call.op = "create_game" =>
        LET n == Len(call.move.player_names)
        IN  (~result.valid /\ ~Created) <=> (n < 2 \/ 4 * n > 52)


(* C14: in every state reached by create_game and apply_move calls,       *)
(* accepted or rejected, draw_pile_count is the length of draw_pile.      *)
C14_CountIsPileLength ==
    Created => Session.draw_pile_count = Len(Session.draw_pile)

C14_Witness ==
    /\ Created
    /\ Session.draw_pile = <<>>
    /\ Session.draw_pile_count = 0
    /\ Len(Session.history) = 1
    /\ AppliedCall
    /\ result = Rejected("Draw pile is empty")


\* who the players of a session are, in list order
Roster(s) ==
    [i \in 1..Len(s.players) |->
        <<s.players[i].player_id, s.players[i].name, s.players[i].seat>>]

(* C15: every hand has exactly four slots, the player list stays the one  *)
(* made at creation, and current_player is the id of a player of that     *)
(* list; moves replace slot contents and never add or drop a slot or a    *)
(* player.                                                                 *)
C15_ShapeIsFixed ==
    /\ [](Created =>
            /\ \A i \in 1..Len(Session.players) :
                    Len(Session.players[i].hand) = 4
            /\ \E i \in 1..Len(Session.players) :
                    Session.players[i].player_id = Session.current_player)
    /\ [][Created => Roster(Session') = Roster(Session)]_vars

C15_Witness ==
    /\ Created
    /\ AcceptedMove("draw_discard_swap")
    /\ Len(Session.players) = 3
    /\ Session.current_player = "p3"
    /\ Len(Session.players[2].hand) = 4


(* C16: once turn_phase is round_end no operation of the store or of its  *)
(* HTTP surface changes any field of the session, and a session changes   *)
(* only by an accepted move that went through validate_move.              *)
C16_OnlyAcceptedMovesMutate ==
    [][Created =>
        /\ Session.turn_phase = "round_end" => Session' = Session
        /\ Session' # Session =>
                (call'.op = "apply_move" /\ result'.valid)]_vars


\* submit_move_endpoint: the HTTP status it answers with for a result of
\* apply_move (HTTPException(status_code=400) whenever valid is false)
submit_move_endpoint(res) == IF ~res.valid THEN 400 ELSE 200

(* C17: a move submitted for a session id that is not stored is answered  *)
(* with a not-found status (404), different from the status of an illegal *)
(* move (400), and no session is created.                                 *)
C17_NotFoundIsDistinct ==
    (call.op = "apply_move" /\ call.game_id \notin DOMAIN game_store) =>
        /\ result.reason = "Game not found"
        /\ submit_move_endpoint(result) = 404
        /\ submit_move_endpoint(result) #
                submit_move_endpoint(Rejected("Not your turn"))


----------------------------------------------------------------------------
(* The board view of the advisor (agent_tools.py)                         *)

\* a mutant of agent_view: a hidden slot is reported like a visible one
agent_view_shows_hidden(state) ==
    [game_id |-> state.game_id,
     current_player |-> state.current_player,
     turn_phase |-> state.turn_phase,
     players |->
        [i \in 1..Len(state.players) |->
            [player_id |-> state.players[i].player_id,
             name |-> state.players[i].name,
             hand |->
                [j \in 1..Len(state.players[i].hand) |->
                    [slot |-> j - 1,
                     card |-> state.players[i].hand[j].card,
                     value |-> get_card_value(
                                    state.players[i].hand[j].card)]]]],
     top_discard |-> state.top_discard,
     draw_pile_count |-> state.draw_pile_count]

\* the dict agent_view that tool_get_board builds from a session; the text
\* it returns is json.dumps of this dict, a function of it
agent_view(state) ==
    [game_id |-> state.game_id,
     current_player |-> state.current_player,
     turn_phase |-> state.turn_phase,
     players |->
        [i \in 1..Len(state.players) |->
            [player_id |-> state.players[i].player_id,
             name |-> state.players[i].name,
             hand |->
                [j \in 1..Len(state.players[i].hand) |->
                    IF state.players[i].hand[j].visible
                    THEN [slot |-> j - 1,
                          card |-> state.players[i].hand[j].card,
                          value |-> get_card_value(
                                        state.players[i].hand[j].card)]
                    ELSE [slot |-> j - 1,
                          card |-> "unknown",
                          value |-> "?"]]]],
     top_discard |-> state.top_discard,
     draw_pile_count |-> state.draw_pile_count]

\* the names agent_tools.py binds by import; its functions look up every
\* other global name (get_state, get_card_value, apply_move) when called
agent_tools_imports == {"json", "Tool", "Any"}

\* the text of the NameError for a global name that is not bound
NameError(name) == "name '" \o name \o "' is not defined"

\* tool_get_board(game_id) on the store h: what it returns, or the
\* exception it raises at state = get_state(game_id)
tool_get_board(h, game_id) ==
    IF "get_state" \notin agent_tools_imports
    THEN [raised |-> NameError("get_state")]
    ELSE IF StoreGet(game_id) = NoRef
    THEN [error |-> "Game not found"]
    ELSE agent_view(h[StoreGet(game_id)])

Reverse(seq) == [i \in 1..Len(seq) |-> seq[Len(seq) + 1 - i]]

\* the hidden slots of a session, as <<player, slot>> indices
HiddenSlots(s) ==
    {ps \in (1..Len(s.players)) \X (1..4) :
        ~s.players[ps[1]].hand[ps[2]].visible}

\* s with the cards of the hidden slots in slots replaced by card, and the
\* draw pile replaced by pile
Disguise(s, slots, card, pile) ==
    [s EXCEPT
        !.players = [i \in 1..Len(s.players) |->
            [s.players[i] EXCEPT
                !.hand = [j \in 1..4 |->
                    IF <<i, j>> \in slots
                    THEN [s.players[i].hand[j] EXCEPT !.card = card]
                    ELSE s.players[i].hand[j]]]],
        !.draw_pile = pile]

\* sessions that differ from s only in cards of hidden slots and in the
\* order of the draw pile
Lookalikes(s) ==
    {Disguise(s, slots, card, pile) :
        slots \in {{ps} : ps \in HiddenSlots(s)} \cup {{}, HiddenSlots(s)},
        card \in {OrderedDeck[1], OrderedDeck[DeckSize]},
        pile \in {s.draw_pile, Reverse(s.draw_pile)}}

VerdictNow == validate_move(call.game_id, call.move)

C20_NoPopFromEmptyPile ==
    \A t \in Threads :
        /\ local[t].ret.reason # "IndexError"
        /\ (pc[t] = "draw_deck" /\ Created) =>
                StoredOf(t).draw_pile # <<>>


(* C22: the k-th history record has turn k and names the player who was   *)
(* current_player when the move was accepted; the records already there   *)
(* stay as they are, in their order, under every later move.              *)
C22_HistoryIsAppendOnly ==
    /\ [](Created =>
            \A k \in 1..Len(Session.history) : Session.history[k].turn = k)
    /\ [][Created =>
            /\ Len(Session'.history) >= Len(Session.history)
            /\ SubSeq(Session'.history, 1, Len(Session.history))
                    = Session.history
            /\ Len(Session'.history) > Len(Session.history) =>
                    Session'.history[Len(Session'.history)].player
                        = Session.current_player]_vars

C22_Witness ==
    /\ Created
    /\ Len(Session.players) = 3
    /\ Len(Session.history) = 2
    /\ Session.history[1].player = "p1"
    /\ Session.history[2].player = "p2"
    /\ Session.history[2].turn = 2
    /\ Session.current_player = "p3"

(* C23: turn_phase leaves awaiting_action only by an accepted call_cambio, *)
(* which keeps current_player; accepted draw_deck, draw_discard_swap and   *)
(* peek keep awaiting_action; in round_end the last history record is the  *)
(* Cambio call of current_player.                                          *)
C23_RoundEndOnlyByCambio ==
    /\ [](Created =>
            /\ Session.turn_phase \in {"awaiting_action", "round_end"}
            /\ Session.turn_phase = "round_end" =>
                /\ Session.history # <<>>
                /\ Session.history[Len(Session.history)].action
                        = "called Cambio!"
                /\ Session.history[Len(Session.history)].player
                        = Session.current_player)
    /\ [][(Created /\ Session.turn_phase = "awaiting_action") =>
            /\ Session'.turn_phase # "awaiting_action" =>
                    /\ AcceptedMove("call_cambio")'
                    /\ Session'.current_player = Session.current_player
            /\ (AppliedCall' /\ result'.valid
                /\ call'.move.type # "call_cambio") =>
                    Session'.turn_phase = "awaiting_action"]_vars

C23_Witness ==
    /\ Created
    /\ Len(Session.players) = 2
    /\ AcceptedMove("call_cambio")
    /\ Session.turn_phase = "round_end"
    /\ Len(Session.history) = 2
    /\ Session.history[1].action = "drew from deck"
    /\ Session.current_player = "p2"

(* C24: an accepted peek(slot) makes that slot of the player who moved     *)
(* visible and changes no card; on a slot that is already visible every    *)
(* hand stays as it was, and the move is still recorded and still passes   *)
(* the turn.                                                               *)
C24_PeekIsIdempotent ==
    [][AcceptedMove("peek")' =>
        LET cp == PositionOf(Session, Session.current_player)
            k == call'.move.slot[1] + 1
        IN  /\ Hands(Session') =
                    [Hands(Session) EXCEPT ![cp][k].visible = TRUE]
            /\ Session.players[cp].hand[k].visible =>
                    Hands(Session') = Hands(Session)
            /\ HandCards(Session'.players) = HandCards(Session.players)
            /\ Len(Session'.history) = Len(Session.history) + 1
            /\ Session'.current_player = NextInOrder(Session)]_vars

C24_Witness ==
    /\ Created
    /\ Len(Session.players) = 2
    /\ AcceptedMove("peek")
    /\ call.move.slot = <<0>>
    /\ Len(Session.history) = 1
    /\ Session.history[1].action = "peeked at slot 0"
    /\ Session.current_player = "p2"


\* the scores of the players, in list order
Scores(s) == [i \in 1..Len(s.players) |-> s.players[i].score]

(* C27: an accepted draw_discard_swap(slot) or peek(slot) changes only     *)
(* that slot of the player who moved and leaves every other slot, the     *)
(* draw pile and draw_pile_count as they were; an accepted draw_deck       *)
(* changes no hand; no accepted non-terminal move changes a score or       *)
(* turn_phase.                                                             *)
C27_MovesTouchOnlyTheirSlot ==
    [][(AppliedCall' /\ result'.valid /\ call'.move.type # "call_cambio") =>
        LET cp == PositionOf(Session, Session.current_player)
        IN  /\ call'.move.type \in {"draw_discard_swap", "peek"} =>
                /\ \A i \in 1..Len(Session.players), j \in 1..4 :
                        <<i, j>> # <<cp, call'.move.slot[1] + 1>> =>
                            Session'.players[i].hand[j]
                                = Session.players[i].hand[j]
                /\ Len(Session'.players) = Len(Session.players)
                /\ Session'.draw_pile = Session.draw_pile
                /\ Session'.draw_pile_count = Session.draw_pile_count
            /\ call'.move.type = "draw_deck" =>
                    Hands(Session') = Hands(Session)
            /\ Scores(Session') = Scores(Session)
            /\ Session'.turn_phase = Session.turn_phase]_vars

C27_Witness ==
    /\ Created
    /\ Len(Session.players) = 2
    /\ AcceptedMove("draw_discard_swap")
    /\ call.move.slot = <<3>>
    /\ Session.history[1].action = "drew from deck"
    /\ Session.players[2].hand[4].visible
    /\ ~Session.players[1].hand[4].visible
    /\ Session.draw_pile # <<>>

(* C28: a hand slot that is visible stays visible under every later move, *)
(* and a discard-top that is not empty is never empty again.               *)
C28_VisibilityIsMonotone ==
    [][Created =>
        /\ \A i \in 1..Len(Session.players), j \in 1..4 :
                Session.players[i].hand[j].visible =>
                    Session'.players[i].hand[j].visible
        /\ Session.top_discard # None => Session'.top_discard # None]_vars

C28_Witness ==
    /\ Created
    /\ Len(Session.players) = 2
    /\ Len(Session.history) = 2
    /\ Session.history[1].action = "drew from deck"
    /\ AcceptedMove("draw_discard_swap")
    /\ call.move.slot = <<0>>
    /\ Session.players[2].hand[1].visible
    /\ Session.top_discard # None


(* C21: a snapshot that get_state returns while an apply_move is running   *)
(* is the session before or after that move, so it has what every such     *)
(* session has: draw_pile_count is the length of draw_pile, and after a    *)
(* recorded non-terminal move the turn has passed on from the player of    *)
(* the last record.                                                        *)
C21_NoTornRead ==
    (call.op = "get_state" /\ result.state # NoRef
     /\ result.state \in DOMAIN heap) =>
        LET snapshot == heap[result.state]
            n == Len(snapshot.history)
        IN  /\ snapshot.draw_pile_count = Len(snapshot.draw_pile)
            /\ (n > 0 /\ snapshot.turn_phase = "awaiting_action") =>
                    snapshot.history[n].player # snapshot.current_player


----------------------------------------------------------------------------
(* The advisor run (agent_play.py)                                        *)

\* AgentExecutor(max_iterations=5): the most tool calls of one run
max_iterations == 5

\* h without the objects allocated since base
DropCopies(h, base) == [r \in (DOMAIN h) \cap (DOMAIN base) |-> h[r]]

\* a mutant of tool_apply_move: apply_move is bound in agent_tools
tool_apply_move_bound(h, game_id, move) ==
    LET r == apply_move(h, game_id, move, validate_move(game_id, move))
    IN  [heap |-> DropCopies(r.heap, h), result |-> r.result]

\* tool_apply_move(payload) with payload the JSON of game_id and move: the
\* heap afterwards and the dict whose JSON text it returns; an exception
\* of the call, the NameError included, is returned as a rejection
tool_apply_move(h, game_id, move) ==
    IF "apply_move" \notin agent_tools_imports
    THEN [heap |-> h, result |-> Rejected(NameError("apply_move"))]
    ELSE LET r == apply_move(h, game_id, move, validate_move(game_id, move))
         IN  [heap |-> DropCopies(r.heap, h), result |-> r.result]

\* what the advisor may ask for in one iteration
ToolCalls ==
    {[tool |-> "get_board", move |-> None]}
    \cup {[tool |-> "apply_move", move |-> m] :
            m \in {[type |-> "draw_deck", slot |-> None],
                   [type |-> "peek", slot |-> <<1>>]}}

\* the tool calls of one run, in order
Scripts ==
    UNION {[1..n -> ToolCalls] : n \in 0..Min(MaxToolCalls, max_iterations)}

\* the final answer of the advisor: text that parses to a decision with a
\* move, a decision without "move", or text with no JSON in it
AdvisorOutputs ==
    {[parses |-> TRUE, has_move |-> TRUE, move |-> m] : m \in ApiMoves}
    \cup {[parses |-> TRUE, has_move |-> FALSE, move |-> None],
          [parses |-> FALSE, has_move |-> FALSE, move |-> None]}

PlayerIds == {"p1", "p2"}

\* agent.invoke: the tools run in the order the advisor calls them; an
\* exception of a tool ends the run
RECURSIVE RunTools(_, _, _)
RunTools(h, game_id, script) ==
    IF script = <<>> THEN [heap |-> h, raised |-> ""]
    ELSE IF Head(script).tool = "get_board"
    THEN LET board == tool_get_board(h, game_id)
         IN  IF "raised" \in DOMAIN board
             THEN [heap |-> h, raised |-> board.raised]
             ELSE RunTools(h, game_id, Tail(script))
    ELSE RunTools(tool_apply_move(h, game_id, Head(script).move).heap,
                  game_id, Tail(script))

\* {"error": text}
AgentError(text) == [NoResult EXCEPT !.reason = text, !.value = "error"]

\* run_agent_move(game_id, player_id, apply) with an advisor that makes the
\* tool calls of script and answers output: the heap afterwards and what
\* is returned (valid is decision["applied"], reason decision["error"])
run_agent_move(h, game_id, player_id, apply, script, output) ==
    LET t == RunTools(h, game_id, script)
    IN  IF t.raised # ""
        THEN [heap |-> t.heap, result |-> AgentError(t.raised)]
        ELSE IF ~output.parses
        THEN [heap |-> t.heap,
              result |-> AgentError("Agent failed to produce valid JSON")]
        ELSE IF ~apply
        THEN [heap |-> t.heap,
              result |-> [NoResult EXCEPT !.value = "decision"]]
        ELSE IF ~output.has_move
        THEN [heap |-> t.heap, result |-> AgentError("'move'")]
        ELSE LET r == apply_move(t.heap, game_id, output.move,
                                 validate_move(game_id, output.move))
             IN  [heap |-> DropCopies(r.heap, t.heap),
                  result |-> [NoResult EXCEPT
                                !.valid = r.result.valid,
                                !.reason = r.result.reason,
                                !.value = "decision"]]

\* POST /games/{game_id}/agent_move
RunAgentMove(game_id, player_id, apply, script, output) ==
    LET h == Release(heap, Live)
        r == run_agent_move(h, game_id, player_id, apply, script, output)
    IN  /\ game_id \in DOMAIN game_store
        /\ CanAllocate(h)
        /\ Len(r.heap[game_store[game_id]].history) <= MaxHistory
        /\ call' = [op |-> "run_agent_move", game_id |-> game_id,
                    move |-> [player_id |-> player_id, apply |-> apply,
                              script |-> script, output |-> output]]
        /\ heap' = r.heap
        /\ result' = r.result
        /\ removed' = IF r.result.valid
                      THEN removed \cup
                           Overwritten(heap[game_store[game_id]], output.move)
                      ELSE removed
        /\ n_valid' = IF r.result.valid THEN n_valid + 1 ELSE n_valid
        /\ UNCHANGED <<game_store, held, pc, local>>

NextAgent ==
    \/ CreateGame(<<>>, 0)
    \/ \E m \in ApiMoves : ApplyMove(TheGame, m)
    \/ \E player_id \in PlayerIds, apply \in BOOLEAN,
          script \in Scripts, output \in AdvisorOutputs :
            RunAgentMove(TheGame, player_id, apply, script, output)

SpecAgent == Init /\ [][NextAgent]_vars

AgentCall == call.op = "run_agent_move" /\ call.game_id = TheGame

C26_AgentMovesOnlyForItsPlayer ==
    [][AgentCall' =>
        /\ call'.move.player_id # Session.current_player =>
                Session' = Session
        /\ Len(Session'.history) > Len(Session.history) =>
                Session'.history[Len(Session'.history)].player
                    = call'.move.player_id]_vars

====
